---- MODULE Spec2Model ----
(***************************************************************************)
(* The continuous hardware-monitoring engine of hardware-query             *)
(* (src/src/monitoring.rs): HardwareMonitor, its background polling loop,  *)
(* event construction, dispatch, statistics and cached snapshots.          *)
(*                                                                         *)
(* Option<T> is modelled as a sequence of length 0 (None) or 1 (Some(x)).  *)
(* Result<T> is modelled as <<"Ok", x>> or <<"Err">>.                       *)
(* f32 readings are modelled as integers; timestamps are left out of the   *)
(* events (SystemTime::now() is never compared by the monitor).            *)
(*                                                                         *)
(* The thermal history, trend and throttling prediction of a ThermalInfo   *)
(* object (src/src/thermal.rs) are modelled on an object a caller holds.   *)
(***************************************************************************)
EXTENDS Integers, Sequences, FiniteSets, TLC

\* ------------------------------------------------------------------ bounds
\* Number of background tasks start_monitoring may spawn in one run.
MaxTasks == 2
\* Number of loop iterations (passes of the running-flag check) in one run.
MaxTicks == 2
\* Number of callbacks registered in one run.
MaxCallbacks == 2
\* Number of broadcast receivers created in one run.
MaxReceivers == 2
\* Number of recv calls one receiver makes in one run.
MaxReads == 2
\* Number of update_sensor_history calls on one ThermalInfo object.
MaxRecords == 11
\* Number of start_monitoring calls made side by side.
MaxStarters == 2

Tasks == 1..MaxTasks
Receivers == 1..MaxReceivers

\* ------------------------------------------------------- Option and Result
None == <<>>
Some(x) == <<x>>
IsSome(o) == Len(o) = 1
Unwrap(o) == o[1]

Ok(x) == <<"Ok", x>>
Err == <<"Err">>
IsOk(r) == r[1] = "Ok"
Value(r) == r[2]

\* ----------------------------------------------------------- configuration
\* MonitoringConfig::default(); background_monitoring is never read by the
\* monitor and is left out.
DefaultConfig ==
    [ update_interval   |-> 5,
      enable_thermal    |-> TRUE,
      enable_power      |-> TRUE,
      enable_hardware   |-> TRUE,
      thermal_threshold |-> 80,
      power_threshold   |-> None ]

\* The values of the fields the model explores.
Intervals == {0, 5}
ThermalThresholds == {75, 80}
PowerThresholds == {None, Some(100), Some(150)}

Configs ==
    [ update_interval   : Intervals,
      enable_thermal    : BOOLEAN,
      enable_power      : BOOLEAN,
      enable_hardware   : BOOLEAN,
      thermal_threshold : ThermalThresholds,
      power_threshold   : PowerThresholds ]

\* Configurations that differ from the default only in the polling interval.
LifeConfigs == { [DefaultConfig EXCEPT !.update_interval = i] : i \in Intervals }

\* Configurations with a valid (non-zero) polling interval.
TickConfigs == { c \in Configs : c.update_interval = DefaultConfig.update_interval }

\* --------------------------------------------------------------- snapshots
SensorNames == <<"cpu", "gpu">>
Temps == {75, 80}
Draws == {None, Some(100), Some(150)}

\* A ThermalSensor as a provider returns it: a name, a reading, a type and no
\* recorded history.
ThermalSensor(name, temp) ==
    [name |-> name, temperature |-> temp, sensor_type |-> name,
     temperature_history |-> <<>>]

\* ThermalInfo::sensors(): a list of sensors, each with a name and a reading.
SensorLists ==
    UNION { { [i \in 1..n |-> ThermalSensor(SensorNames[i], f[i])] :
              f \in [1..n -> Temps] } : n \in 0..Len(SensorNames) }

ThermalInfo(s) == [sensors |-> s]
PowerProfile(d) == [total_power_draw |-> d]
HardwareInfo(ts) == [timestamp |-> ts]

\* What the three queries of one tick may return.
HardwareResults(now) == {Err, Ok(HardwareInfo(now))}
ThermalResults == {Err} \cup { Ok(ThermalInfo(s)) : s \in SensorLists }
PowerResults == {Err} \cup { Ok(PowerProfile(d)) : d \in Draws }

\* What the queries return with the platform layer as shipped: no sensors,
\* no total power draw.
StubHardwareResults(now) == {Ok(HardwareInfo(now))}
StubThermalResults == {Ok(ThermalInfo(<<>>))}
StubPowerResults == {Ok(PowerProfile(None))}

\* ------------------------------------------------------------------ events
ThermalAlert(name, temp, threshold) ==
    [kind |-> "ThermalAlert", sensor_name |-> name, temperature |-> temp,
     threshold |-> threshold]
PowerAlert(power, threshold) ==
    [kind |-> "PowerAlert", current_power |-> power, threshold |-> threshold]
MonitoringError(category) ==
    [kind |-> "MonitoringError", error |-> category]
MetricsUpdate(h, t, p) ==
    [kind |-> "MetricsUpdate", hardware_info |-> h, thermal_info |-> t,
     power_profile |-> p]

\* Number of events of one kind in a sequence of events.
CountKind(evs, k) == Cardinality({ i \in 1..Len(evs) : evs[i].kind = k })

\* ------------------------------------------------- one tick: the queries
\* The token standing for the result of a query that was not made.
NotQueried == <<"NotQueried">>

\* The local Option a category's query leaves behind (hardware_info,
\* thermal_info, power_profile): Some(snapshot) when the category is enabled
\* and its query succeeded, None otherwise.
Snapshot(enabled, res) ==
    IF enabled /\ IsOk(res) THEN Some(Value(res)) ELSE None

\* if config.enable_hardware { match HardwareInfo::query() { ... } }
HardwareEvents(cfg, res) ==
    IF cfg.enable_hardware /\ ~IsOk(res)
    THEN <<MonitoringError("hardware")>>
    ELSE <<>>

\* Variant: alerts only strictly above the threshold.
ThermalAlertsAbove(info, threshold) ==
    LET hot == SelectSeq(info.sensors, LAMBDA s : s.temperature > threshold)
    IN  [i \in 1..Len(hot) |->
            ThermalAlert(hot[i].name, hot[i].temperature, threshold)]

\* for sensor in info.sensors() { if sensor.temperature >= threshold { push } }
ThermalAlerts(info, threshold) ==
    LET hot == SelectSeq(info.sensors, LAMBDA s : s.temperature >= threshold)
    IN  [i \in 1..Len(hot) |->
            ThermalAlert(hot[i].name, hot[i].temperature, threshold)]

\* if config.enable_thermal { match ThermalInfo::query() { ... } }
ThermalEvents(cfg, res) ==
    IF ~cfg.enable_thermal THEN <<>>
    ELSE IF IsOk(res) THEN ThermalAlerts(Value(res), cfg.thermal_threshold)
    ELSE <<MonitoringError("thermal")>>

\* Variant: an alert only strictly above the threshold.
PowerAlertsAbove(profile, power_threshold) ==
    IF IsSome(profile.total_power_draw) /\ IsSome(power_threshold)
       /\ Unwrap(profile.total_power_draw) > Unwrap(power_threshold)
    THEN <<PowerAlert(Unwrap(profile.total_power_draw), Unwrap(power_threshold))>>
    ELSE <<>>

\* if let (Some(current_power), Some(threshold)) = (draw, power_threshold)
\*     { if current_power >= threshold { push } }
PowerAlerts(profile, power_threshold) ==
    IF IsSome(profile.total_power_draw) /\ IsSome(power_threshold)
       /\ Unwrap(profile.total_power_draw) >= Unwrap(power_threshold)
    THEN <<PowerAlert(Unwrap(profile.total_power_draw), Unwrap(power_threshold))>>
    ELSE <<>>

\* if config.enable_power { match PowerProfile::query() { ... } }
PowerEvents(cfg, res) ==
    IF ~cfg.enable_power THEN <<>>
    ELSE IF IsOk(res) THEN PowerAlerts(Value(res), cfg.power_threshold)
    ELSE <<MonitoringError("power")>>

\* Variant: no MetricsUpdate for a tick that obtained no snapshot.
MetricsEventsIfAny(cfg, hw, th, pw) ==
    IF \/ IsSome(Snapshot(cfg.enable_hardware, hw))
       \/ IsSome(Snapshot(cfg.enable_thermal, th))
       \/ IsSome(Snapshot(cfg.enable_power, pw))
    THEN << MetricsUpdate(Snapshot(cfg.enable_hardware, hw),
                          Snapshot(cfg.enable_thermal, th),
                          Snapshot(cfg.enable_power, pw)) >>
    ELSE <<>>

\* events.push(MonitoringEvent::MetricsUpdate { ... })
MetricsEvents(cfg, hw, th, pw) ==
    << MetricsUpdate(Snapshot(cfg.enable_hardware, hw),
                     Snapshot(cfg.enable_thermal, th),
                     Snapshot(cfg.enable_power, pw)) >>

\* Variant: a failed hardware query ends the tick's sampling (as a `?` on the
\* query would).
TickEventsAbort(cfg, hw, th, pw) ==
    IF cfg.enable_hardware /\ ~IsOk(hw)
    THEN HardwareEvents(cfg, hw) \o MetricsEvents(cfg, hw, NotQueried, NotQueried)
    ELSE HardwareEvents(cfg, hw) \o ThermalEvents(cfg, th) \o PowerEvents(cfg, pw)
            \o MetricsEvents(cfg, hw, th, pw)

\* The events vector of one tick, in the order the loop pushes them.
TickEvents(cfg, hw, th, pw) ==
    HardwareEvents(cfg, hw) \o ThermalEvents(cfg, th) \o PowerEvents(cfg, pw)
        \o MetricsEvents(cfg, hw, th, pw)

\* The provider calls of one tick, in the order the loop makes them.
Queried(cfg) ==
    (IF cfg.enable_hardware THEN <<"hardware">> ELSE <<>>)
        \o (IF cfg.enable_thermal THEN <<"thermal">> ELSE <<>>)
        \o (IF cfg.enable_power THEN <<"power">> ELSE <<>>)

\* ------------------------------------------------------------------- state
VARIABLES
    config,             \* HardwareMonitor.config
    running,            \* HardwareMonitor.running
    callbacks,          \* HardwareMonitor.callbacks: ids in registration order
    notified,           \* per callback id: the events on_event was called with
    rx,                 \* the receivers of event_sender's broadcast channel
    stats,              \* HardwareMonitor.stats
    last_hardware_info, \* HardwareMonitor.last_hardware_info
    last_thermal_info,  \* HardwareMonitor.last_thermal_info
    last_power_profile, \* HardwareMonitor.last_power_profile
    task,               \* the spawned background tasks and their locals
    ticks,              \* loop iterations entered so far (the model's clock)
    lastCall,           \* the most recent API call and what it returned
    sent,               \* every event handed to event_sender.send, in order
    durations,          \* update_duration of every completed iteration, in order
    thermal,            \* a ThermalInfo object a caller holds
    records,            \* update_sensor_history calls made on it so far
    kinds,              \* per callback id: what the boxed object's on_event does
    starts              \* start_monitoring calls made side by side

vars == << config, running, callbacks, notified, rx, stats, last_hardware_info,
           last_thermal_info, last_power_profile, task, ticks, lastCall,
           sent, durations, thermal, records, kinds, starts >>

\* What the calls and loop steps below leave alone unless they say otherwise:
\* the caller's ThermalInfo object, the callback objects' kinds and the start
\* calls made side by side.
caller == << thermal, records, kinds, starts >>

\* The monitor and its tasks, which no operation on that object touches.
engine == << config, running, callbacks, notified, rx, stats, last_hardware_info,
             last_thermal_info, last_power_profile, task, ticks, sent, durations,
             kinds, starts >>

monitor == << config, callbacks, notified, rx, stats, last_hardware_info,
              last_thermal_info, last_power_profile, sent, durations, caller >>

\* broadcast::channel(1000)
ChannelCapacity == 1000

\* What the provider returned to the queries of the current iteration.
NoResults == [hardware |-> NotQueried, thermal |-> NotQueried, power |-> NotQueried]

\* A task slot: pc is the task's position, the other fields are the locals of
\* the spawned future (its config clone and the per-iteration variables);
\* queried and results record the provider calls of the iteration.
NoTask ==
    [ pc |-> "idle", config |-> DefaultConfig, events |-> <<>>,
      hardware_info |-> None, thermal_info |-> None, power_profile |-> None,
      queried |-> <<>>, results |-> NoResults, dispatched |-> 0,
      notifying |-> 0, update_times |-> <<>> ]

\* A receiver: since is the number of events sent before it subscribed, queue
\* the events it has not read yet, received what recv has returned to it and
\* missed the number of unread events the channel dropped for it.
NoReceiver ==
    [active |-> FALSE, since |-> 0, queue |-> <<>>, received |-> <<>>, missed |-> 0]

ZeroStats ==
    [ total_events |-> 0, thermal_alerts |-> 0, power_alerts |-> 0,
      hardware_changes |-> 0, errors |-> 0, average_update_interval |-> 0 ]

\* ThermalInfo::query() with the platform layer as shipped.
NoThermal == ThermalInfo(<<>>)

\* The callback objects add_callback can be handed: a ClosureCallback around
\* the caller's own closure, the closures on_thermal_threshold and
\* on_power_threshold build, and a MonitoringCallback whose on_event calls
\* add_callback on the monitor it is registered with.
Closure == [kind |-> "closure"]
ThermalThreshold(threshold) == [kind |-> "thermal_threshold", threshold |-> threshold]
PowerThreshold(threshold) == [kind |-> "power_threshold", threshold |-> threshold]
Reentrant == [kind |-> "reentrant"]
NoKinds == [c \in 1..MaxCallbacks |-> Closure]

\* The callers of start_monitoring side by side, none of which has called yet.
Starters == 1..MaxStarters
NoStarts == [s \in Starters |-> [pc |-> "idle", result |-> "none"]]

\* The fields of the monitor HardwareMonitor::with_config(c) builds.
NewMonitor(c) ==
    /\ config = c
    /\ running = FALSE
    /\ callbacks = <<>>
    /\ notified = [c1 \in 1..MaxCallbacks |-> <<>>]
    /\ rx = [r \in Receivers |-> NoReceiver]
    /\ stats = ZeroStats
    /\ last_hardware_info = None
    /\ last_thermal_info = None
    /\ last_power_profile = None
    /\ task = [t \in Tasks |-> NoTask]
    /\ ticks = 0
    /\ lastCall = [op |-> "with_config", args |-> <<>>, result |-> "Ok",
                   was_running |-> FALSE]
    /\ sent = <<>>
    /\ durations = <<>>

\* HardwareMonitor::with_config(c), next to a caller that holds no readings.
with_config(c) ==
    /\ NewMonitor(c)
    /\ thermal = NoThermal
    /\ records = 0
    /\ kinds = NoKinds
    /\ starts = NoStarts

Init == \E c \in LifeConfigs : with_config(c)

\* ------------------------------------------------------------- API calls
\* The record of an API call: which call, what it returned, and what
\* is_monitoring() was when it was made.
ReturnedFrom(op, args, result) ==
    lastCall' = [op |-> op, args |-> args, result |-> result,
                 was_running |-> running]
Returned(op, result) == ReturnedFrom(op, <<>>, result)

\* Variant: a start that does not look at the flag.
AlreadyRunningUnchecked == FALSE

\* let mut running = self.running.write().await; if *running { return Err }
AlreadyRunning == running

\* The task slot the next tokio::spawn fills.
FreeSlots == { t \in Tasks : task[t].pc = "idle" }
NextSlot == CHOOSE t \in FreeSlots : \A u \in FreeSlots : t <= u

\* The spawned future right after tokio::spawn: it owns a clone of the
\* configuration and has not run yet.
Spawned(cfg) == [NoTask EXCEPT !.pc = "spawned", !.config = cfg]

\* Variant: a start that begins with fresh statistics.
start_monitoring_resetting ==
    IF AlreadyRunning
    THEN /\ Returned("start_monitoring", "InvalidConfiguration")
         /\ UNCHANGED << running, task, ticks, monitor >>
    ELSE /\ FreeSlots # {}
         /\ running' = TRUE
         /\ task' = [task EXCEPT ![NextSlot] = Spawned(config)]
         /\ Returned("start_monitoring", "Ok")
         /\ stats' = ZeroStats
         /\ UNCHANGED << ticks, config, callbacks, notified, rx, last_hardware_info,
                         last_thermal_info, last_power_profile, sent, durations,
                         caller >>

\* HardwareMonitor::start_monitoring
start_monitoring ==
    IF AlreadyRunning
    THEN /\ Returned("start_monitoring", "InvalidConfiguration")
         /\ UNCHANGED << running, task, ticks, monitor >>
    ELSE /\ FreeSlots # {}
         /\ running' = TRUE
         /\ task' = [task EXCEPT ![NextSlot] = Spawned(config)]
         /\ Returned("start_monitoring", "Ok")
         /\ UNCHANGED << ticks, monitor >>

\* Variant: a stop that flips the flag instead of clearing it.
stop_monitoring_toggle ==
    /\ running' = ~running
    /\ Returned("stop_monitoring", "Ok")
    /\ UNCHANGED << task, ticks, monitor >>

\* HardwareMonitor::stop_monitoring
stop_monitoring ==
    /\ running' = FALSE
    /\ Returned("stop_monitoring", "Ok")
    /\ UNCHANGED << task, ticks, monitor >>

\* HardwareMonitor::is_monitoring
is_monitoring == running

\* Variant: a configuration the running loops share with the monitor.
update_config_shared(new_config) ==
    /\ config' = new_config
    /\ task' = [t \in Tasks |->
                  IF task[t].pc = "idle" THEN task[t]
                  ELSE [task[t] EXCEPT !.config = new_config]]
    /\ Returned("update_config", "Ok")
    /\ UNCHANGED << running, callbacks, notified, rx, stats, last_hardware_info,
                    last_thermal_info, last_power_profile, ticks,
                    sent, durations, caller >>

\* HardwareMonitor::update_config
update_config(new_config) ==
    /\ config' = new_config
    /\ Returned("update_config", "Ok")
    /\ UNCHANGED << running, callbacks, notified, rx, stats, last_hardware_info,
                    last_thermal_info, last_power_profile, task, ticks,
                    sent, durations, caller >>

\* self.callbacks.lock(): the tasks holding the lock, which a task takes for
\* the callbacks of one event and which add_callback and clear_callbacks wait
\* for.
CallbacksLock ==
    { t \in Tasks : task[t].pc \in {"notify", "on_event"} /\ task[t].notifying > 0 }

\* Callback ids handed out so far: every add_callback boxes a new object.
Registered == { c \in DOMAIN notified : \E i \in 1..Len(callbacks) : callbacks[i] = c }
UsedCallbacks == { c \in DOMAIN notified : c \in Registered \/ notified[c] # <<>> }

\* The id of the next callback object.
NewCallback == Cardinality(UsedCallbacks) + 1

\* HardwareMonitor::add_callback (and on_event, which wraps it)
add_callback ==
    /\ CallbacksLock = {}
    /\ NewCallback <= MaxCallbacks
    /\ callbacks' = Append(callbacks, NewCallback)
    /\ Returned("add_callback", "Ok")
    /\ UNCHANGED << config, running, notified, rx, stats, last_hardware_info,
                    last_thermal_info, last_power_profile, task, ticks,
                    sent, durations, caller >>

\* Variant: a clear that does not wait for the lock.
clear_callbacks_unlocked ==
    /\ callbacks' = <<>>
    /\ Returned("clear_callbacks", "Ok")
    /\ UNCHANGED << config, running, notified, rx, stats, last_hardware_info,
                    last_thermal_info, last_power_profile, task, ticks,
                    sent, durations, caller >>

\* HardwareMonitor::clear_callbacks
clear_callbacks ==
    /\ CallbacksLock = {}
    /\ callbacks' = <<>>
    /\ Returned("clear_callbacks", "Ok")
    /\ UNCHANGED << config, running, notified, rx, stats, last_hardware_info,
                    last_thermal_info, last_power_profile, task, ticks,
                    sent, durations, caller >>

\* callbacks.push(Box::new(callback)) under the lock, for a callback object of
\* one kind.
Boxed(kind) ==
    /\ CallbacksLock = {}
    /\ NewCallback <= MaxCallbacks
    /\ callbacks' = Append(callbacks, NewCallback)
    /\ kinds' = [kinds EXCEPT ![NewCallback] = kind]
    /\ UNCHANGED << config, running, notified, rx, stats, last_hardware_info,
                    last_thermal_info, last_power_profile, ticks, sent, durations,
                    thermal, records, starts >>

\* HardwareMonitor::on_thermal_threshold: on_event with a closure of its own
\* around the threshold; the caller's _callback goes nowhere.
on_thermal_threshold(threshold) ==
    /\ Boxed(ThermalThreshold(threshold))
    /\ ReturnedFrom("on_thermal_threshold", << threshold >>, "Ok")
    /\ UNCHANGED task

\* HardwareMonitor::on_power_threshold
on_power_threshold(threshold) ==
    /\ Boxed(PowerThreshold(threshold))
    /\ ReturnedFrom("on_power_threshold", << threshold >>, "Ok")
    /\ UNCHANGED task

\* Whether on_event of a callback object calls the caller's handler for an
\* event. A ClosureCallback calls its closure for every event. The closures
\* of on_thermal_threshold and on_power_threshold match the variant and
\* compare with the threshold, and the branch they then take is empty.
CallsHandler(kind, e) ==
    CASE kind.kind = "thermal_threshold" ->
           /\ e.kind = "ThermalAlert"
           /\ e.temperature >= kind.threshold
           /\ FALSE
      [] kind.kind = "power_threshold" ->
           /\ e.kind = "PowerAlert"
           /\ e.current_power >= kind.threshold
           /\ FALSE
      [] OTHER -> TRUE

\* The events the handler behind callback c has been called with.
Handled(c) == SelectSeq(notified[c], LAMBDA e : CallsHandler(kinds[c], e))

\* The application, as a caller of add_callback next to the tasks.
Application == 0

\* The loop after on_event of the callback it awaited has returned.
Resumed(tk, registered) ==
    IF tk.notifying >= registered
    THEN [tk EXCEPT !.dispatched = @ + 1,
                    !.notifying = 0,
                    !.pc = IF tk.dispatched + 1 = Len(tk.events)
                           THEN "stats" ELSE "dispatch"]
    ELSE [tk EXCEPT !.pc = "notify"]

\* HardwareMonitor::add_callback called by the application, or by the
\* on_event a task is awaiting: either way it waits for the callbacks lock.
\* The application leaves the last callback of a run to the on_event calls.
add_callback_by(who, kind) ==
    /\ who \in Tasks => task[who].pc = "on_event"
    /\ who = Application => NewCallback < MaxCallbacks
    /\ Boxed(kind)
    /\ IF who = Application
       THEN /\ Returned("add_callback", "Ok")
            /\ task' = task
       ELSE /\ lastCall' = lastCall
            /\ task' = [task EXCEPT ![who] = Resumed(task[who], Len(callbacks) + 1)]

\* Variant: the flag read under one lock and written under the next.
StartCheckThenSet(s) ==
    /\ starts[s].pc \in {"idle", "checked"}
    /\ IF starts[s].pc = "checked"
       THEN /\ running' = TRUE
            /\ starts' = [starts EXCEPT ![s].pc = "spawning"]
       ELSE /\ running' = running
            /\ starts' = [starts EXCEPT ![s] =
                            IF AlreadyRunning
                            THEN [pc |-> "returned", result |-> "InvalidConfiguration"]
                            ELSE [pc |-> "checked", result |-> "none"]]
    /\ UNCHANGED << config, callbacks, notified, rx, stats, last_hardware_info,
                    last_thermal_info, last_power_profile, task, ticks, lastCall,
                    sent, durations, thermal, records, kinds >>

\* The first block of start_monitoring, for one of several callers: under
\* self.running.write() the flag is read and, when it is false, set.
StartCheckAndSet(s) ==
    /\ starts[s].pc = "idle"
    /\ IF AlreadyRunning
       THEN /\ running' = running
            /\ starts' = [starts EXCEPT ![s] =
                            [pc |-> "returned", result |-> "InvalidConfiguration"]]
       ELSE /\ running' = TRUE
            /\ starts' = [starts EXCEPT ![s].pc = "spawning"]
    /\ UNCHANGED << config, callbacks, notified, rx, stats, last_hardware_info,
                    last_thermal_info, last_power_profile, task, ticks, lastCall,
                    sent, durations, thermal, records, kinds >>

\* The rest of that call: the clones, tokio::spawn and Ok(()).
StartSpawn(s) ==
    /\ starts[s].pc = "spawning"
    /\ FreeSlots # {}
    /\ task' = [task EXCEPT ![NextSlot] = Spawned(config)]
    /\ starts' = [starts EXCEPT ![s] = [pc |-> "returned", result |-> "Ok"]]
    /\ UNCHANGED << config, running, callbacks, notified, rx, stats,
                    last_hardware_info, last_thermal_info, last_power_profile,
                    ticks, lastCall, sent, durations, thermal, records, kinds >>

\* Variant: a subscribe whose receiver is handed everything sent before.
subscribe_replaying(r) ==
    /\ ~rx[r].active
    /\ rx' = [rx EXCEPT ![r] = [NoReceiver EXCEPT !.active = TRUE,
                                                  !.since = Len(sent),
                                                  !.queue = sent]]
    /\ Returned("subscribe", "Ok")
    /\ UNCHANGED << config, running, callbacks, notified, stats, last_hardware_info,
                    last_thermal_info, last_power_profile, task, ticks,
                    sent, durations, caller >>

\* HardwareMonitor::subscribe: a new receiver that sees what is sent from now on
subscribe(r) ==
    /\ ~rx[r].active
    /\ rx' = [rx EXCEPT ![r] = [NoReceiver EXCEPT !.active = TRUE,
                                                  !.since = Len(sent)]]
    /\ Returned("subscribe", "Ok")
    /\ UNCHANGED << config, running, callbacks, notified, stats, last_hardware_info,
                    last_thermal_info, last_power_profile, task, ticks,
                    sent, durations, caller >>

\* broadcast::Receiver::recv on receiver r: the oldest unread event
Recv(r) ==
    /\ rx[r].active
    /\ rx[r].queue # <<>>
    /\ Len(rx[r].received) < MaxReads
    /\ rx' = [rx EXCEPT ![r].queue = Tail(@),
                        ![r].received = Append(@, Head(rx[r].queue))]
    /\ UNCHANGED << config, running, callbacks, notified, stats, last_hardware_info,
                    last_thermal_info, last_power_profile, task, ticks, lastCall,
                    sent, durations, caller >>

\* ------------------------------------------------ the ThermalInfo object
\* "Keep only last 10 readings"
HistoryLimit == 10

\* The index of the first sensor with a name (0 when there is none):
\* self.sensors.iter_mut().find(|s| s.name == sensor_name)
RECURSIVE FindFrom(_, _, _)
FindFrom(sensors, name, i) ==
    IF i > Len(sensors) THEN 0
    ELSE IF sensors[i].name = name THEN i
    ELSE FindFrom(sensors, name, i + 1)
Find(sensors, name) == FindFrom(sensors, name, 1)

\* Variant: a history that evicts its newest reading to keep the bound.
RecordedKeepingOldest(sensor, temperature) ==
    LET pushed == Append(sensor.temperature_history, temperature) IN
    [sensor EXCEPT
       !.temperature_history = IF Len(pushed) > HistoryLimit
                               THEN SubSeq(pushed, 1, HistoryLimit) ELSE pushed,
       !.temperature = temperature]

\* The sensor after the push, the eviction and the update of its reading.
Recorded(sensor, temperature) ==
    LET pushed == Append(sensor.temperature_history, temperature) IN
    [sensor EXCEPT
       !.temperature_history = IF Len(pushed) > HistoryLimit
                               THEN Tail(pushed) ELSE pushed,
       !.temperature = temperature]

\* ThermalInfo::update_sensor_history
update_sensor_history(sensor_name, temperature) ==
    /\ records < MaxRecords
    /\ records' = records + 1
    /\ LET i == Find(thermal.sensors, sensor_name) IN
       thermal' = IF i = 0 THEN thermal
                  ELSE [thermal EXCEPT
                          !.sensors[i] = Recorded(thermal.sensors[i], temperature)]
    /\ ReturnedFrom("update_sensor_history", <<sensor_name, temperature>>, "Ok")
    /\ UNCHANGED engine

\* ThermalInfo::max_temperature
RECURSIVE MaxFrom(_, _, _)
MaxFrom(sensors, i, acc) ==
    IF i > Len(sensors) THEN acc
    ELSE MaxFrom(sensors, i + 1,
                 IF acc = None \/ sensors[i].temperature > Unwrap(acc)
                 THEN Some(sensors[i].temperature) ELSE acc)
max_temperature(info) == MaxFrom(info.sensors, 1, None)

\* ThermalInfo::cpu_temperature and gpu_temperature: the reading of the first
\* sensor of a type.
RECURSIVE FindType(_, _, _)
FindType(sensors, type, i) ==
    IF i > Len(sensors) THEN None
    ELSE IF sensors[i].sensor_type = type THEN Some(sensors[i].temperature)
    ELSE FindType(sensors, type, i + 1)
cpu_temperature(info) == FindType(info.sensors, "cpu", 1)
gpu_temperature(info) == FindType(info.sensors, "gpu", 1)

unwrap_or(o, default) == IF IsSome(o) THEN Unwrap(o) ELSE default

\* Variant: a trend over the last two readings only.
SensorTrendShort(history) ==
    LET recent_temps == [k \in 1..3 |-> history[Len(history) + 1 - k]] IN
    recent_temps[1] - recent_temps[2]

\* Twice the trend of one sensor: recent_temps[0] - recent_temps[2] over the
\* history reversed and cut to three readings (.iter().rev().take(3)).
SensorTrend(history) ==
    LET recent_temps == [k \in 1..3 |-> history[Len(history) + 1 - k]] IN
    recent_temps[1] - recent_temps[3]

\* ThermalInfo::calculate_temperature_trend as the exact fraction num / den:
\* the sum of the sensors' trends over their number, every trend being a
\* difference over 2.
RECURSIVE TrendFrom(_, _, _, _)
TrendFrom(sensors, i, total, count) ==
    IF i > Len(sensors)
    THEN IF count > 0 THEN [num |-> total, den |-> 2 * count]
         ELSE [num |-> 0, den |-> 1]
    ELSE IF Len(sensors[i].temperature_history) >= 3
         THEN TrendFrom(sensors, i + 1,
                        total + SensorTrend(sensors[i].temperature_history),
                        count + 1)
         ELSE TrendFrom(sensors, i + 1, total, count)
calculate_temperature_trend(info) == TrendFrom(info.sensors, 1, 0, 0)

\* Variant: throttling only above the critical threshold.
AtLeastStrict(value, den, bound) == value > bound * den

\* value / den >= bound
AtLeast(value, den, bound) == value >= bound * den

\* Variant: the minutes to the threshold taken for seconds.
TimeMinutes(temp_diff, temp_trend) ==
    LET minutes == temp_diff * temp_trend.den IN
    IF minutes <= 0 THEN 0 ELSE minutes \div temp_trend.num

\* let time_seconds = (temp_diff / temp_trend) * 60.0, then
\* time_seconds.max(0.0) as u64: whole seconds and none below zero, for a
\* trend num / den above zero.
TimeSeconds(temp_diff, temp_trend) ==
    LET time_seconds == temp_diff * temp_trend.den * 60 IN
    IF time_seconds <= 0 THEN 0 ELSE time_seconds \div temp_trend.num

\* ThermalInfo::predict_thermal_throttling, with workload_intensity in tenths
\* (so that workload_intensity * 10.0 is the number itself), confidence in
\* tenths and projected_max_temp as the fraction projected / den.
Prediction(info, workload_intensity) ==
    LET max_temp == unwrap_or(max_temperature(info), 0)
        cpu_temp == unwrap_or(cpu_temperature(info), 0)
        gpu_temp == unwrap_or(gpu_temperature(info), 0)
        critical_threshold == 90
        temp_trend == calculate_temperature_trend(info)
        den == temp_trend.den
        projected == (max_temp + workload_intensity) * den + temp_trend.num
        will_throttle == AtLeast(projected, den, critical_threshold)
        temp_diff == critical_threshold - max_temp
    IN  [ will_throttle |-> will_throttle,
          time_to_throttle |->
            IF will_throttle /\ temp_trend.num > 0
            THEN Some(TimeSeconds(temp_diff, temp_trend))
            ELSE None,
          severity |->
            IF AtLeast(projected, den, 95) THEN "Severe"
            ELSE IF AtLeast(projected, den, 90) THEN "Heavy"
            ELSE IF AtLeast(projected, den, 85) THEN "Moderate"
            ELSE IF AtLeast(projected, den, 80) THEN "Light"
            ELSE "None",
          recommendations |->
            IF will_throttle
            THEN << "Reduce workload intensity", "Increase fan speeds if possible" >>
                 \o (IF cpu_temp > gpu_temp
                     THEN << "Focus on CPU cooling optimization" >>
                     ELSE IF gpu_temp > cpu_temp
                     THEN << "Focus on GPU cooling optimization" >>
                     ELSE <<>>)
            ELSE <<>>,
          confidence |->
            IF temp_trend.num > 2 * den \/ temp_trend.num < -2 * den THEN 8 ELSE 6 ]

predict_thermal_throttling(workload_intensity) ==
    /\ ReturnedFrom("predict_thermal_throttling", <<workload_intensity>>,
                    Prediction(thermal, workload_intensity))
    /\ UNCHANGED << engine, caller >>

\* --------------------------------------------------- the background task
\* let mut interval = interval(config.update_interval): tokio's interval
\* panics when the period is zero, which ends the task before its loop.
LoopStart(t) ==
    /\ task[t].pc = "spawned"
    /\ task' = [task EXCEPT ![t].pc = IF task[t].config.update_interval = 0
                                      THEN "panicked" ELSE "check"]
    /\ UNCHANGED << running, ticks, lastCall, monitor >>

\* Variant: a loop that never reads the flag.
LoopConditionAlways == TRUE

\* while *running.read().await
LoopCondition == running

\* The head of the loop: one read of the running flag.
LoopCheck(t) ==
    /\ task[t].pc = "check"
    /\ IF LoopCondition
       THEN /\ ticks < MaxTicks
            /\ ticks' = ticks + 1
            /\ task' = [task EXCEPT ![t].pc = "sleep"]
       ELSE /\ ticks' = ticks
            /\ task' = [task EXCEPT ![t].pc = "done"]
    /\ UNCHANGED << running, lastCall, monitor >>

\* interval.tick().await, then the three queries and the MetricsUpdate event
\* (none of it awaits, so no other step of the monitor falls in between).
LoopSample(t, hw, th, pw) ==
    /\ task[t].pc = "sleep"
    /\ LET cfg == task[t].config IN
       task' = [task EXCEPT
                  ![t].pc = "cache",
                  ![t].queried = Queried(cfg),
                  ![t].results = [hardware |-> hw, thermal |-> th, power |-> pw],
                  ![t].hardware_info = Snapshot(cfg.enable_hardware, hw),
                  ![t].thermal_info = Snapshot(cfg.enable_thermal, th),
                  ![t].power_profile = Snapshot(cfg.enable_power, pw),
                  ![t].events = TickEvents(cfg, hw, th, pw),
                  ![t].dispatched = 0]
    /\ UNCHANGED << running, ticks, lastCall, monitor >>

\* The results a tick may draw: a disabled category is not queried.
Asked(enabled, results) == IF enabled THEN results ELSE {NotQueried}

LoopTick(t, H, T, P) ==
    \E hw \in Asked(task[t].config.enable_hardware, H),
       th \in Asked(task[t].config.enable_thermal, T),
       pw \in Asked(task[t].config.enable_power, P) :
        LoopSample(t, hw, th, pw)

\* Variant: a channel that keeps every unread event.
SendKeepingAll(queue, e) == Append(queue, e)

\* event_sender.send(event): every receiver gets the event; a receiver that is
\* a full channel behind loses its oldest unread event.
Send(queue, e) ==
    IF Len(queue) >= ChannelCapacity
    THEN Append(Tail(queue), e)
    ELSE Append(queue, e)

\* Variant: the cache always takes the tick's local.
CachedOverwritten(last, local) == local

\* if let Some(info) = hardware_info { *last_hardware_info.write().await = Some(info) }
Cached(last, local) == IF IsSome(local) THEN local ELSE last

\* "Update cached information"
LoopCacheUpdate(t) ==
    /\ task[t].pc = "cache"
    /\ last_hardware_info' = Cached(last_hardware_info, task[t].hardware_info)
    /\ last_thermal_info' = Cached(last_thermal_info, task[t].thermal_info)
    /\ last_power_profile' = Cached(last_power_profile, task[t].power_profile)
    /\ task' = [task EXCEPT ![t].pc = "dispatch"]
    /\ UNCHANGED << config, running, callbacks, notified, rx, stats, ticks, lastCall,
                    sent, durations, caller >>

\* let _ = event_sender.send(event.clone()): the first statement of one round
\* of "for event in &events". It returns at once whoever listens.
LoopDispatch(t) ==
    /\ task[t].pc = "dispatch"
    /\ LET e == task[t].events[task[t].dispatched + 1] IN
        /\ rx' = [r \in Receivers |->
                    IF rx[r].active
                    THEN [rx[r] EXCEPT
                            !.queue = Send(@, e),
                            !.missed = IF Len(rx[r].queue) >= ChannelCapacity
                                       THEN @ + 1 ELSE @]
                    ELSE rx[r]]
        /\ sent' = Append(sent, e)
    /\ task' = [task EXCEPT ![t].pc = "notify", ![t].notifying = 0]
    /\ UNCHANGED << config, running, callbacks, notified, stats, last_hardware_info,
                    last_thermal_info, last_power_profile, ticks, lastCall,
                    durations, caller >>

\* The end of one round: the lock guard is dropped and the next event, or the
\* statistics block, follows.
Advanced(tk) ==
    [tk EXCEPT !.dispatched = @ + 1,
               !.notifying = 0,
               !.pc = IF tk.dispatched + 1 = Len(tk.events)
                      THEN "stats" ELSE "dispatch"]

\* let callbacks = callbacks.lock().await; for callback in callbacks.iter()
\* { callback.on_event(event).await }: one callback per step, the lock taken
\* before the first and held to the last. An on_event that calls back into
\* the monitor is awaited until that call has returned.
LoopNotify(t) ==
    /\ task[t].pc = "notify"
    /\ CallbacksLock \subseteq {t}
    /\ LET e == task[t].events[task[t].dispatched + 1]
           k == task[t].notifying + 1
       IN  /\ notified' = IF k <= Len(callbacks)
                          THEN [notified EXCEPT ![callbacks[k]] = Append(@, e)]
                          ELSE notified
           /\ task' = [task EXCEPT
                         ![t] = IF k <= Len(callbacks)
                                   /\ kinds[callbacks[k]] = Reentrant
                                THEN [task[t] EXCEPT !.pc = "on_event",
                                                     !.notifying = k]
                                ELSE IF k >= Len(callbacks)
                                THEN Advanced(task[t])
                                ELSE [task[t] EXCEPT !.notifying = k]]
    /\ UNCHANGED << config, running, callbacks, rx, stats, last_hardware_info,
                    last_thermal_info, last_power_profile, ticks, lastCall,
                    sent, durations, caller >>

\* Variant: counters that take a MetricsUpdate for a hardware change.
CountedWithMetrics(st, evs) ==
    [st EXCEPT
       !.total_events     = @ + Len(evs),
       !.thermal_alerts   = @ + CountKind(evs, "ThermalAlert"),
       !.power_alerts     = @ + CountKind(evs, "PowerAlert"),
       !.hardware_changes = @ + CountKind(evs, "HardwareChanged")
                              + CountKind(evs, "MetricsUpdate"),
       !.errors           = @ + CountKind(evs, "MonitoringError") ]

\* Variant: counters that leave the failed queries out.
CountedWithoutErrors(st, evs) ==
    [st EXCEPT
       !.total_events     = @ + Len(evs),
       !.thermal_alerts   = @ + CountKind(evs, "ThermalAlert"),
       !.power_alerts     = @ + CountKind(evs, "PowerAlert"),
       !.hardware_changes = @ + CountKind(evs, "HardwareChanged") ]

\* "Update statistics": the counters after a tick with events evs.
Counted(st, evs) ==
    [st EXCEPT
       !.total_events     = @ + Len(evs),
       !.thermal_alerts   = @ + CountKind(evs, "ThermalAlert"),
       !.power_alerts     = @ + CountKind(evs, "PowerAlert"),
       !.hardware_changes = @ + CountKind(evs, "HardwareChanged"),
       !.errors           = @ + CountKind(evs, "MonitoringError") ]

\* if update_times.len() > 100 { update_times.remove(0) }
WindowSize == 100
Window(times) == IF Len(times) > WindowSize THEN Tail(times) ELSE times

\* update_times.iter().sum(), added up half by half
RECURSIVE SumRange(_, _, _)
SumRange(times, lo, hi) ==
    IF lo > hi THEN 0
    ELSE IF lo = hi THEN times[lo]
    ELSE LET mid == (lo + hi) \div 2 IN
         SumRange(times, lo, mid) + SumRange(times, mid + 1, hi)

Sum(times) == SumRange(times, 1, Len(times))

\* total_time / update_times.len() as u32 (Duration division truncates)
Average(times) == Sum(times) \div Len(times)

\* What update_start.elapsed() may return, in units of the Duration.
UpdateDurations == {1, 3}
Shortest == CHOOSE d \in UpdateDurations : \A e \in UpdateDurations : d <= e

\* The statistics block of an iteration that took update_duration, then the
\* end of the iteration: its locals are dropped, update_times lives on.
LoopStatsUpdate(t, update_duration) ==
    /\ task[t].pc = "stats"
    /\ LET update_times == Window(Append(task[t].update_times, update_duration)) IN
        /\ stats' = [Counted(stats, task[t].events) EXCEPT
                       !.average_update_interval = Average(update_times)]
        /\ task' = [task EXCEPT ![t] = [NoTask EXCEPT !.pc = "check",
                                                     !.config = task[t].config,
                                                     !.update_times = update_times]]
    /\ durations' = Append(durations, update_duration)
    /\ UNCHANGED << config, running, callbacks, notified, rx, last_hardware_info,
                    last_thermal_info, last_power_profile, ticks, lastCall,
                    sent, caller >>

\* ---------------------------------------------------------- specifications
\* The steps of task t other than its queries, each iteration taking the
\* shortest time.
LoopStep(t) ==
    \/ LoopStart(t)
    \/ LoopCheck(t)
    \/ LoopCacheUpdate(t)
    \/ LoopDispatch(t)
    \/ LoopNotify(t)
    \/ LoopStatsUpdate(t, Shortest)

\* The monitor in use: its lifecycle, configuration and callback calls around
\* the background tasks, with the provider as the platform layer ships it and
\* no failing hardware query.
LoopRuns(t) ==
    \/ LoopStep(t)
    \/ LoopTick(t, StubHardwareResults(ticks), StubThermalResults, StubPowerResults)

Next ==
    \/ start_monitoring
    \/ stop_monitoring
    \/ \E c \in LifeConfigs : update_config(c)
    \/ add_callback
    \/ clear_callbacks
    \/ \E t \in Tasks : LoopRuns(t)

Spec == Init /\ [][Next]_vars

\* Starts and stops around the background tasks, with the tokio runtime
\* scheduling every spawned task.
FairNext ==
    \/ start_monitoring
    \/ stop_monitoring
    \/ \E t \in Tasks : LoopRuns(t)

FairSpec == Init /\ [][FairNext]_vars /\ \A t \in Tasks : WF_vars(LoopRuns(t))

\* A monitoring session: a monitor built with configuration c on which
\* subscribe() (once for each receiver of listeners), add_callback() and
\* start_monitoring() have been called.
SessionWith(c, listeners) ==
    /\ config = c
    /\ running = TRUE
    /\ callbacks = <<1>>
    /\ notified = [c1 \in 1..MaxCallbacks |-> <<>>]
    /\ rx = [r \in Receivers |->
               IF r \in listeners THEN [NoReceiver EXCEPT !.active = TRUE]
               ELSE NoReceiver]
    /\ stats = ZeroStats
    /\ last_hardware_info = None
    /\ last_thermal_info = None
    /\ last_power_profile = None
    /\ task = [t \in Tasks |-> IF t = 1 THEN Spawned(c) ELSE NoTask]
    /\ ticks = 0
    /\ lastCall = [op |-> "start_monitoring", args |-> <<>>, result |-> "Ok",
                   was_running |-> FALSE]
    /\ sent = <<>>
    /\ durations = <<>>
    /\ thermal = NoThermal
    /\ records = 0
    /\ kinds = NoKinds
    /\ starts = NoStarts

Session(c) == SessionWith(c, {1})

\* One session over a provider whose every query may fail: every combination
\* of enable flags and thresholds, each query failing or returning one of two
\* snapshots.
TwoSensors ==
    << ThermalSensor("cpu", 75), ThermalSensor("gpu", 80) >>
SomeThermalResults == {Err, Ok(ThermalInfo(<<>>)), Ok(ThermalInfo(TwoSensors))}
SomePowerResults == {Err, Ok(PowerProfile(None)), Ok(PowerProfile(Some(100)))}

TickInit == \E c \in TickConfigs : Session(c)

TickNext ==
    \/ \E t \in Tasks : LoopStep(t)
    \/ \E t \in Tasks : LoopTick(t, HardwareResults(ticks), SomeThermalResults,
                                 SomePowerResults)

TickSpec == TickInit /\ [][TickNext]_vars

\* One session over every thermal reading: any enable flags and thermal
\* threshold, any sensor list.
ThermalInit ==
    \E c \in TickConfigs : c.power_threshold = DefaultConfig.power_threshold
                           /\ Session(c)

ThermalNext ==
    \/ \E t \in Tasks : LoopStep(t)
    \/ \E t \in Tasks : LoopTick(t, HardwareResults(ticks), ThermalResults,
                                 StubPowerResults)

ThermalSpec == ThermalInit /\ [][ThermalNext]_vars

\* One session over every power reading: any enable flags and power
\* threshold, any total power draw.
PowerInit ==
    \E c \in TickConfigs : c.thermal_threshold = DefaultConfig.thermal_threshold
                           /\ Session(c)

PowerNext ==
    \/ \E t \in Tasks : LoopStep(t)
    \/ \E t \in Tasks : LoopTick(t, HardwareResults(ticks), StubThermalResults,
                                 PowerResults)

PowerSpec == PowerInit /\ [][PowerNext]_vars

\* A session whose provider reports a sensor at the thermal threshold in
\* every tick, so that each tick publishes two events, with receivers that
\* subscribe and read at any time.
HotThermalResults == {Ok(ThermalInfo(TwoSensors))}

\* The events of the tick made at time now in such a session.
HotTick(now) ==
    TickEvents(DefaultConfig, Ok(HardwareInfo(now)), Ok(ThermalInfo(TwoSensors)),
               Ok(PowerProfile(None)))

\* The events of the last n ticks before time 1, oldest first.
PastEvents(n) ==
    SubSeq([i \in 1..(2 * n) |-> HotTick(((i + 1) \div 2) - n)[((i + 1) % 2) + 1]],
           1, 2 * n)

\* n iterations that each took the shortest time.
PastDurations(n) == SubSeq([i \in 1..n |-> Shortest], 1, n)

\* Such a session after as many ticks as fill the channel, with a receiver
\* that subscribed before the first of them and has never read.
LaggingSession ==
    LET n == ChannelCapacity \div 2 IN
    /\ config = DefaultConfig
    /\ running = TRUE
    /\ callbacks = <<1>>
    /\ notified = [c1 \in 1..MaxCallbacks |-> IF c1 = 1 THEN PastEvents(n) ELSE <<>>]
    /\ rx = [r \in Receivers |->
               IF r = 1 THEN [NoReceiver EXCEPT !.active = TRUE, !.queue = PastEvents(n)]
               ELSE NoReceiver]
    /\ stats = [ZeroStats EXCEPT !.total_events = 2 * n, !.thermal_alerts = n,
                                 !.average_update_interval = Shortest]
    /\ last_hardware_info = Some(HardwareInfo(0))
    /\ last_thermal_info = Some(ThermalInfo(TwoSensors))
    /\ last_power_profile = Some(PowerProfile(None))
    /\ task = [t \in Tasks |->
                 IF t = 1
                 THEN [NoTask EXCEPT !.pc = "check", !.config = DefaultConfig,
                                     !.update_times = PastDurations(WindowSize)]
                 ELSE NoTask]
    /\ ticks = 0
    /\ lastCall = [op |-> "start_monitoring", args |-> <<>>, result |-> "Ok",
                   was_running |-> FALSE]
    /\ sent = PastEvents(n)
    /\ durations = PastDurations(n)
    /\ thermal = NoThermal
    /\ records = 0
    /\ kinds = NoKinds
    /\ starts = NoStarts

ChannelInit ==
    \/ SessionWith(DefaultConfig, {})
    \/ SessionWith(DefaultConfig, {1})
    \/ LaggingSession

\* The steps of task t in such a session.
ChannelRuns(t) ==
    \/ LoopStep(t)
    \/ LoopTick(t, StubHardwareResults(ticks), HotThermalResults, StubPowerResults)

ChannelNext ==
    \/ \E t \in Tasks : ChannelRuns(t)
    \/ \E r \in Receivers : subscribe(r)
    \/ \E r \in Receivers : Recv(r)

\* The tokio runtime runs every spawned task.
ChannelSpec ==
    ChannelInit /\ [][ChannelNext]_vars /\ \A t \in Tasks : WF_vars(ChannelRuns(t))

\* The monitor in use over a provider that raises alerts: the power threshold
\* is configured, every tick reads a sensor at the thermal threshold and a
\* power draw at the power threshold, and the hardware query fails.
AlertingConfig == [DefaultConfig EXCEPT !.power_threshold = Some(100)]
AlertingPowerResults == {Ok(PowerProfile(Some(100)))}

AlertingRuns(t) ==
    \/ LoopStep(t)
    \/ LoopTick(t, {Err}, HotThermalResults, AlertingPowerResults)

AlertingInit == with_config(AlertingConfig)

AlertingNext ==
    \/ start_monitoring
    \/ stop_monitoring
    \/ update_config(DefaultConfig)
    \/ clear_callbacks
    \/ \E t \in Tasks : AlertingRuns(t)

AlertingSpec == AlertingInit /\ [][AlertingNext]_vars

\* Starts and stops around background tasks whose iterations take any of the
\* update durations, with the provider as the platform layer ships it.
TimedRuns(t) ==
    \/ LoopStart(t)
    \/ LoopCheck(t)
    \/ LoopTick(t, StubHardwareResults(ticks), StubThermalResults, StubPowerResults)
    \/ LoopCacheUpdate(t)
    \/ LoopDispatch(t)
    \/ LoopNotify(t)
    \/ \E d \in UpdateDurations : LoopStatsUpdate(t, d)

TimedInit == with_config(DefaultConfig)

TimedNext ==
    \/ start_monitoring
    \/ stop_monitoring
    \/ \E t \in Tasks : TimedRuns(t)

TimedSpec == TimedInit /\ [][TimedNext]_vars

\* Threshold handlers registered before and while a loop runs over a
\* provider with a sensor at 80 degrees and a draw of 100 watts, both at the
\* configured thresholds.
HandlerThresholds == {80, 100, 120}

ThresholdNext ==
    \/ \E th \in HandlerThresholds : on_thermal_threshold(th)
    \/ \E th \in HandlerThresholds : on_power_threshold(th)
    \/ start_monitoring
    \/ \E t \in Tasks : AlertingRuns(t)

ThresholdSpec == AlertingInit /\ [][ThresholdNext]_vars

\* Callers that start a stopped monitor of any configuration side by side
\* and register callbacks, and the tasks that are spawned, with the provider
\* as the platform layer ships it.
RaceNext ==
    \/ add_callback
    \/ \E s \in Starters : StartCheckAndSet(s)
    \/ \E s \in Starters : StartSpawn(s)
    \/ \E t \in Tasks : TimedRuns(t)

RaceSpec == Init /\ [][RaceNext]_vars

\* A monitor whose callbacks may call add_callback from on_event, with the
\* tokio runtime scheduling the spawned task.
ReentrantNext ==
    \/ \E who \in {Application} \cup Tasks, kind \in {Closure, Reentrant} :
          add_callback_by(who, kind)
    \/ start_monitoring
    \/ stop_monitoring
    \/ \E t \in Tasks : LoopRuns(t)

ReentrantSpec ==
    TimedInit /\ [][ReentrantNext]_vars /\ \A t \in Tasks : WF_vars(LoopRuns(t))

\* A caller that holds a ThermalInfo object with no, one or two sensors,
\* records readings on it under two names (known to the object or not) and
\* asks it for predictions.
HeldInfos ==
    { NoThermal, ThermalInfo(<< ThermalSensor("cpu", 75) >>), ThermalInfo(TwoSensors) }
RecordedNames == {"cpu", "gpu"}
Readings == {70, 80}
Workloads == {0, 5, 10}

HistoryInit ==
    \E info \in HeldInfos :
        /\ NewMonitor(DefaultConfig)
        /\ thermal = info
        /\ records = 0
        /\ kinds = NoKinds
        /\ starts = NoStarts

HistoryNext ==
    \/ \E n \in RecordedNames, temp \in Readings : update_sensor_history(n, temp)
    \/ \E w \in Workloads : predict_thermal_throttling(w)

HistorySpec == HistoryInit /\ [][HistoryNext]_vars

\* The same caller with a few readings that rise past the critical
\* temperature.
HeatRecords == 4
HeatReadings == {70, 77, 95}

HeatNext ==
    \/ \E n \in RecordedNames, temp \in HeatReadings :
          records < HeatRecords /\ update_sensor_history(n, temp)
    \/ \E w \in Workloads : predict_thermal_throttling(w)

HeatSpec == HistoryInit /\ [][HeatNext]_vars

\* ------------------------------------------------------------ properties
\* Positions of a task that has been spawned and has not ended.
LivePcs == {"spawned", "check", "sleep", "cache", "dispatch", "notify", "stats"}
\* Positions inside a loop iteration (between the flag check and the next).
TickPcs == {"sleep", "cache", "dispatch", "notify", "stats"}
\* Positions at which the events vector of the iteration is complete.
BuiltPcs == {"cache", "dispatch", "notify", "stats"}

LiveTasks == { t \in Tasks : task[t].pc \in LivePcs }

\* C1: a start_monitoring call made while the running flag is true returns
\* the InvalidConfiguration error and has no effect: the flag stays true, no
\* task is spawned or moved, no event reaches a receiver or a callback, and
\* the counters are unchanged.
C1_DoubleStartRejected ==
    [][ (lastCall' # lastCall /\ lastCall'.op = "start_monitoring" /\ running)
        => /\ lastCall'.result = "InvalidConfiguration"
           /\ running'
           /\ task' = task
           /\ rx' = rx
           /\ notified' = notified
           /\ stats' = stats ]_vars

\* A rejected start on a monitor whose single loop has already counted events.
C1_Witness ==
    /\ lastCall.op = "start_monitoring"
    /\ lastCall.result = "InvalidConfiguration"
    /\ lastCall.was_running
    /\ running
    /\ Cardinality(LiveTasks) = 1
    /\ stats.total_events > 0

\* C2: at any time at most one background task of the monitor is inside a
\* loop iteration, whatever the interleaving of start_monitoring and
\* stop_monitoring calls.
C2_SingleLoop ==
    Cardinality({ t \in Tasks : task[t].pc \in TickPcs }) <= 1

\* C3: a task leaves the head of its loop into an iteration only on reading
\* the flag set and ends on reading it cleared, so after a stop it runs at
\* most the iteration whose check came before the stop; and once the flag is
\* cleared, unless a later start sets it again, every task eventually ends.
C3_StopBounded ==
    /\ [][ \A t \in Tasks :
             (task[t].pc = "check" /\ task'[t].pc # "check")
             => task'[t].pc = (IF running THEN "sleep" ELSE "done") ]_vars
    /\ [][ \A t \in Tasks : task[t].pc = "done" => task'[t].pc = "done" ]_vars
    /\ (~running ~> (running \/ LiveTasks = {}))

\* A monitor stopped after at least one iteration whose task has ended.
C3_Witness ==
    /\ lastCall.op = "stop_monitoring"
    /\ ~running
    /\ \E t \in Tasks : task[t].pc = "done"
    /\ LiveTasks = {}
    /\ stats.total_events > 0

\* C4: every stop_monitoring call, on a running or a stopped monitor, returns
\* normally, leaves is_monitoring() false and changes nothing else: not the
\* callbacks, the counters, the cached snapshots or the configuration.
C4_StopIdempotent ==
    [][ (lastCall' # lastCall /\ lastCall'.op = "stop_monitoring")
        => /\ lastCall'.result = "Ok"
           /\ ~is_monitoring'
           /\ UNCHANGED << config, callbacks, notified, rx, stats,
                           last_hardware_info, last_thermal_info,
                           last_power_profile, task, ticks >> ]_vars

\* A stop called on an already stopped monitor that has a callback, counted
\* events and a cached snapshot.
C4_Witness ==
    /\ lastCall.op = "stop_monitoring"
    /\ ~lastCall.was_running
    /\ ~running
    /\ callbacks # <<>>
    /\ stats.total_events > 0
    /\ IsSome(last_hardware_info)

\* The categories in the order the loop queries them.
Categories == <<"hardware", "thermal", "power">>

EnabledIn(cfg, cat) ==
    CASE cat = "hardware" -> cfg.enable_hardware
      [] cat = "thermal"  -> cfg.enable_thermal
      [] cat = "power"    -> cfg.enable_power

\* The iteration of task t asked the provider for cat and the query failed
\* (succeeded).
Failed(t, cat) ==
    EnabledIn(task[t].config, cat) /\ ~IsOk(task[t].results[cat])
Succeeded(t, cat) ==
    EnabledIn(task[t].config, cat) /\ IsOk(task[t].results[cat])

\* The snapshot field of a MetricsUpdate event for a category.
FieldOf(m, cat) ==
    CASE cat = "hardware" -> m.hardware_info
      [] cat = "thermal"  -> m.thermal_info
      [] cat = "power"    -> m.power_profile

OfKind(evs, k) == SelectSeq(evs, LAMBDA e : e.kind = k)
ErrorsOf(evs, cat) ==
    Cardinality({ i \in 1..Len(evs) : evs[i] = MonitoringError(cat) })

\* Tasks that have entered an iteration and not yet sent its last event.
Undispatched ==
    { t \in Tasks :
        \/ task[t].pc \in {"sleep", "cache", "dispatch"}
        \/ task[t].pc = "notify" /\ task[t].dispatched + 1 < Len(task[t].events) }

\* Everything receiver r was handed: what it read and what waits in its queue.
MetricsHanded(r) == CountKind(rx[r].received \o rx[r].queue, "MetricsUpdate")

HotSensors(sensors, threshold) ==
    { i \in 1..Len(sensors) : sensors[i].temperature >= threshold }

\* C6: in a tick with thermal sampling enabled and a successful thermal query,
\* the ThermalAlert events are, in sensor order, one for each sensor whose
\* reading is at or above the configured threshold, with that sensor's name,
\* its reading and the threshold; a sensor below the threshold has none.
C6_ThermalAlerts ==
    \A t \in Tasks : (task[t].pc \in BuiltPcs /\ Succeeded(t, "thermal")) =>
        LET sensors == Value(task[t].results.thermal).sensors
            threshold == task[t].config.thermal_threshold
            hot == HotSensors(sensors, threshold)
            alerts == OfKind(task[t].events, "ThermalAlert")
        IN  /\ Len(alerts) = Cardinality(hot)
            /\ \A k \in 1..Len(alerts) :
                 \E i \in hot :
                    /\ Cardinality({ j \in hot : j < i }) = k - 1
                    /\ alerts[k].sensor_name = sensors[i].name
                    /\ alerts[k].temperature = sensors[i].temperature
                    /\ alerts[k].threshold = threshold

\* A tick whose first sensor is below the threshold and whose second is at it.
C6_Witness ==
    \E t \in Tasks :
        /\ task[t].pc \in BuiltPcs
        /\ Succeeded(t, "thermal")
        /\ LET sensors == Value(task[t].results.thermal).sensors IN
             /\ Len(sensors) = 2
             /\ sensors[1].temperature < task[t].config.thermal_threshold
             /\ sensors[2].temperature = task[t].config.thermal_threshold
        /\ OfKind(task[t].events, "ThermalAlert") =
             << ThermalAlert("gpu", task[t].config.thermal_threshold,
                             task[t].config.thermal_threshold) >>

\* C7: a tick whose thermal query fails has exactly one MonitoringError for
\* the thermal category and no ThermalAlert; its cache update leaves the
\* cached thermal snapshot as it was, while a tick whose thermal query
\* succeeds stores that tick's snapshot; and the failing tick runs to its end
\* and returns to the head of the loop.
C7_ThermalFailure ==
    /\ [](\A t \in Tasks : (task[t].pc \in BuiltPcs /\ Failed(t, "thermal")) =>
            /\ ErrorsOf(task[t].events, "thermal") = 1
            /\ CountKind(task[t].events, "ThermalAlert") = 0)
    /\ [][ \A t \in Tasks : (task[t].pc = "cache" /\ task'[t].pc # "cache") =>
             /\ task'[t].pc = "dispatch"
             /\ last_thermal_info' =
                  (IF Succeeded(t, "thermal")
                   THEN Some(Value(task[t].results.thermal))
                   ELSE last_thermal_info) ]_vars
    /\ [][ \A t \in Tasks :
             /\ (task[t].pc = "dispatch" /\ task'[t].pc # "dispatch")
                  => task'[t].pc = "notify"
             /\ (task[t].pc = "notify" /\ task'[t].pc # "notify")
                  => task'[t].pc \in {"dispatch", "stats"}
             /\ (task[t].pc = "stats" /\ task'[t].pc # "stats")
                  => task'[t].pc = "check" ]_vars

\* The second tick's thermal query failed after the first one's succeeded:
\* past its cache update the cache still holds the first tick's snapshot.
C7_Witness ==
    /\ ticks = 2
    /\ task[1].pc = "dispatch"
    /\ Failed(1, "thermal")
    /\ last_thermal_info = Some(ThermalInfo(TwoSensors))

\* The rank of an event in the order hardware, thermal, power, metrics.
Rank(e) ==
    CASE e.kind = "MetricsUpdate" -> 4
      [] e.kind = "PowerAlert" -> 3
      [] e.kind = "ThermalAlert" -> 2
      [] e.kind = "MonitoringError" ->
            (CASE e.error = "hardware" -> 1
               [] e.error = "thermal" -> 2
               [] e.error = "power" -> 3)

AlertKind(cat) == IF cat = "thermal" THEN "ThermalAlert" ELSE "PowerAlert"

\* C8: in every tick the enabled categories, and only they, are queried in
\* the order hardware, thermal, power, whichever of them fail; a category
\* whose query fails has exactly one MonitoringError at its place in that
\* order and no alert, one whose query succeeds has no MonitoringError, a
\* disabled one has no event; and the tick goes on to send every event to the
\* receivers and callbacks and to count every event and error in the stats.
C8_FailureNeverAborts ==
    /\ [](\A t \in Tasks : task[t].pc \in BuiltPcs =>
            LET evs == task[t].events IN
            /\ task[t].queried =
                 SelectSeq(Categories, LAMBDA c : EnabledIn(task[t].config, c))
            /\ \A i, j \in 1..Len(evs) : i < j => Rank(evs[i]) <= Rank(evs[j])
            /\ \A i \in 1..3 :
                 LET cat == Categories[i] IN
                 /\ ErrorsOf(evs, cat) = (IF Failed(t, cat) THEN 1 ELSE 0)
                 /\ (cat # "hardware" /\ ~Succeeded(t, cat))
                      => CountKind(evs, AlertKind(cat)) = 0
            /\ task[t].pc = "stats" =>
                 /\ task[t].dispatched = Len(evs)
                 /\ \A r \in Receivers : rx[r].active =>
                      SubSeq(rx[r].queue, Len(rx[r].queue) - Len(evs) + 1,
                             Len(rx[r].queue)) = evs
                 /\ \A c \in Registered :
                      SubSeq(notified[c], Len(notified[c]) - Len(evs) + 1,
                             Len(notified[c])) = evs)
    /\ [][ \A t \in Tasks :
             /\ (task[t].pc = "cache" /\ task'[t].pc # "cache")
                  => task'[t].pc = "dispatch"
             /\ (task[t].pc = "dispatch" /\ task'[t] # task[t])
                  => /\ task'[t].pc = "notify"
                     /\ sent' = Append(sent, task[t].events[task[t].dispatched + 1])
             /\ (task[t].pc = "notify" /\ task'[t] # task[t])
                  => task'[t].pc \in {"notify", "dispatch", "stats"}
             /\ (task[t].pc = "stats" /\ task'[t].pc # "stats")
                  => /\ task'[t].pc = "check"
                     /\ stats'.total_events =
                          stats.total_events + Len(task[t].events)
                     /\ stats'.errors = stats.errors
                          + Cardinality({ i \in 1..3 : Failed(t, Categories[i]) })
         ]_vars

\* A tick in which all three queries failed, dispatched to its last event.
C8_Witness ==
    /\ task[1].pc = "stats"
    /\ task[1].queried = Categories
    /\ task[1].events =
         << MonitoringError("hardware"), MonitoringError("thermal"),
            MonitoringError("power"), MetricsUpdate(None, None, None) >>

\* C9: whenever is_monitoring() is true, a background task of the monitor is
\* alive, for every configuration (an update_interval of zero included).
C9_RunningHasLoop ==
    running => LiveTasks # {}

\* C10: in a tick with power sampling enabled and a successful power query
\* there is one PowerAlert, carrying the draw and the threshold, exactly when
\* the profile has a total power draw, a power threshold is configured and
\* the draw is at or above it, and none otherwise; a loop running without a
\* power threshold (the default) never counts a power alert.
C10_PowerAlert ==
    \A t \in Tasks :
      /\ (task[t].pc \in BuiltPcs /\ Succeeded(t, "power")) =>
            LET draw == Value(task[t].results.power).total_power_draw
                threshold == task[t].config.power_threshold
                alerts == OfKind(task[t].events, "PowerAlert")
            IN  IF IsSome(draw) /\ IsSome(threshold)
                   /\ Unwrap(draw) >= Unwrap(threshold)
                THEN alerts = <<PowerAlert(Unwrap(draw), Unwrap(threshold))>>
                ELSE alerts = <<>>
      /\ (task[t].pc \in LivePcs /\ task[t].config.power_threshold = None)
            => stats.power_alerts = 0

\* A tick whose total power draw equals the configured threshold.
C10_Witness ==
    \E t \in Tasks :
        /\ task[t].pc \in BuiltPcs
        /\ Succeeded(t, "power")
        /\ IsSome(task[t].config.power_threshold)
        /\ Value(task[t].results.power).total_power_draw
             = task[t].config.power_threshold
        /\ CountKind(task[t].events, "PowerAlert") = 1

\* Positions of an iteration past its cache update.
CachedPcs == {"dispatch", "notify", "stats"}

\* C11: once a tick whose hardware query succeeded has made its cache update,
\* get_last_hardware_info() returns that tick's snapshot or a more recent one,
\* never an older one: the cache holds the most recent successful snapshot.
C11_CacheMostRecent ==
    \A t \in Tasks :
        (task[t].pc \in CachedPcs /\ IsSome(task[t].hardware_info)) =>
            /\ IsSome(last_hardware_info)
            /\ Unwrap(last_hardware_info).timestamp
                 >= Unwrap(task[t].hardware_info).timestamp

\* a is, in order, a part of b.
RECURSIVE IsSubseq(_, _)
IsSubseq(a, b) ==
    IF a = <<>> THEN TRUE
    ELSE IF b = <<>> THEN FALSE
    ELSE IF Head(a) = Head(b) THEN IsSubseq(Tail(a), Tail(b))
    ELSE IsSubseq(a, Tail(b))

\* C12: every callback observes the events in the order they were published
\* (what it has observed is, in order, a part of what was sent), and an event
\* is published only after every callback of the event before it has
\* finished, so at most one published event has callbacks outstanding.
C12_CallbacksInOrder ==
    /\ \A c \in DOMAIN notified : IsSubseq(notified[c], sent)
    /\ Cardinality({ t \in Tasks : task[t].pc = "notify" }) <= 1

\* What receiver r has been given: what it read and what waits for it.
Kept(r) == rx[r].received \o rx[r].queue

\* The events sent since receiver r subscribed.
SentSince(r) == SubSeq(sent, rx[r].since + 1, Len(sent))

\* C13 (amended): a receiver returned by subscribe() is given, in publication
\* order, every event published after its subscribe call and none published
\* before it, whenever it subscribes, as long as it never has more than the
\* channel's capacity of unread events; beyond that it loses its oldest unread
\* events and keeps the most recent ones. A recv on one receiver changes no
\* other receiver.
C13_SubscriberSeesAll ==
    /\ [](\A r \in Receivers : rx[r].active =>
            /\ rx[r].since <= Len(sent)
            /\ Len(Kept(r)) + rx[r].missed = Len(SentSince(r))
            /\ rx[r].missed = 0 => Kept(r) = SentSince(r)
            /\ Len(rx[r].queue) <= ChannelCapacity
            /\ rx[r].queue = SubSeq(sent, Len(sent) - Len(rx[r].queue) + 1, Len(sent)))
    /\ [][ \A r \in Receivers :
             rx'[r].received # rx[r].received =>
                /\ rx'[r].received = Append(rx[r].received, Head(rx[r].queue))
                /\ sent' = sent
                /\ \A q \in Receivers \ {r} : rx'[q] = rx[q] ]_vars

\* The second receiver subscribed between the two events of the first tick,
\* has read one event and has more waiting, while the first has read nothing.
C13_Witness ==
    /\ rx[1].active /\ rx[1].since = 0 /\ rx[1].received = <<>>
    /\ rx[2].active /\ rx[2].since = 1
    /\ Len(rx[2].received) = 1
    /\ Len(rx[2].queue) = 2
    /\ Len(sent) = 4

\* C13 as stated: every receiver is given every event published after its
\* subscribe call, however far it lags.
C13_SeesEveryEvent ==
    \A r \in Receivers : rx[r].active => Kept(r) = SentSince(r)

\* C14: the send of an event, with no receiver, with receivers that read and
\* with a receiver that never reads and holds a full channel of unread
\* events, leaves every inactive receiver alone, gives every active receiver
\* the event as its newest, dropping the oldest unread event of one that
\* already holds the channel's capacity, and moves the task on to the
\* callbacks; and a task that is about to send never waits there: every tick
\* that has begun to publish goes on to the end of its statistics update.
C14_PublicationNeverBlocks ==
    /\ [][ \A t \in Tasks :
             (task[t].pc = "dispatch" /\ task'[t] # task[t]) =>
                LET e == task[t].events[task[t].dispatched + 1] IN
                /\ task'[t].pc = "notify"
                /\ \A r \in Receivers :
                     IF rx[r].active
                     THEN /\ rx'[r].queue[Len(rx'[r].queue)] = e
                          /\ Len(rx'[r].queue) <= ChannelCapacity
                          /\ IF Len(rx[r].queue) = ChannelCapacity
                             THEN /\ rx'[r].queue = Append(Tail(rx[r].queue), e)
                                  /\ rx'[r].missed = rx[r].missed + 1
                             ELSE /\ rx'[r].queue = Append(rx[r].queue, e)
                                  /\ rx'[r].missed = rx[r].missed
                     ELSE rx'[r] = rx[r] ]_vars
    /\ [][ \A t \in Tasks :
             (task[t].pc = "stats" /\ task'[t].pc # "stats") =>
                /\ task'[t].pc = "check"
                /\ stats'.total_events > stats.total_events ]_vars
    /\ \A t \in Tasks : (task[t].pc = "dispatch") ~> (task[t].pc = "check")

\* A tick completed on a channel whose receiver never read: the receiver
\* holds the capacity, has lost the two oldest events, and the callback and
\* the counters have the tick's two events.
C14_Witness ==
    /\ rx[1].active
    /\ rx[1].received = <<>>
    /\ Len(rx[1].queue) = ChannelCapacity
    /\ rx[1].missed = 2
    /\ task[1].pc = "check"
    /\ Len(notified[1]) = ChannelCapacity + 2
    /\ stats.total_events = ChannelCapacity + 2

\* C15: the statistics update of a tick raises total_events by the number of
\* events of the tick and thermal_alerts, power_alerts, hardware_changes and
\* errors by the number of its ThermalAlert, PowerAlert, HardwareChanged and
\* MonitoringError events; the one MetricsUpdate of the tick is counted in
\* total_events only, so total_events is always the sum of the four other
\* counters and the number of completed ticks.
C15_StatsPerTick ==
    /\ [][ \A t \in Tasks :
             (task[t].pc = "stats" /\ task'[t].pc # "stats") =>
                LET evs == task[t].events IN
                /\ stats'.total_events = stats.total_events + Len(evs)
                /\ stats'.thermal_alerts =
                     stats.thermal_alerts + Len(OfKind(evs, "ThermalAlert"))
                /\ stats'.power_alerts =
                     stats.power_alerts + Len(OfKind(evs, "PowerAlert"))
                /\ stats'.hardware_changes =
                     stats.hardware_changes + Len(OfKind(evs, "HardwareChanged"))
                /\ stats'.errors =
                     stats.errors + Len(OfKind(evs, "MonitoringError"))
                /\ Len(OfKind(evs, "MetricsUpdate")) = 1 ]_vars
    /\ [](stats.total_events =
            stats.thermal_alerts + stats.power_alerts + stats.hardware_changes
            + stats.errors + Len(durations))

\* One completed tick with a failed hardware query, two thermal alerts and a
\* power alert.
C15_Witness ==
    /\ task[1].pc = "check"
    /\ Len(durations) = 1
    /\ stats.total_events = 5
    /\ stats.thermal_alerts = 2
    /\ stats.power_alerts = 1
    /\ stats.hardware_changes = 0
    /\ stats.errors = 1

\* The counters of MonitoringStats.
Counters ==
    {"total_events", "thermal_alerts", "power_alerts", "hardware_changes", "errors"}

\* C16: no step of the monitor lowers a counter, and no call of its API
\* changes one: a counter changes only in the statistics update of a tick, so
\* neither start_monitoring (accepted or rejected), stop_monitoring, a
\* stop/start cycle, update_config nor clear_callbacks resets it.
C16_CountersNeverDecrease ==
    /\ [][ \A k \in Counters : stats'[k] >= stats[k] ]_vars
    /\ [][ lastCall' # lastCall => stats' = stats ]_vars
    /\ [][ stats' # stats =>
             \E t \in Tasks : task[t].pc = "stats" /\ task'[t].pc = "check" ]_vars

\* A monitor started again after a loop that counted alerts and an error has
\* ended, and then reconfigured: the counters are still there.
C16_Witness ==
    /\ lastCall.op = "update_config"
    /\ running
    /\ \E t \in Tasks : task[t].pc = "done"
    /\ \E t \in Tasks : task[t].pc = "check"
    /\ stats.thermal_alerts > 0
    /\ stats.power_alerts > 0
    /\ stats.errors > 0

\* The last n elements of a sequence (all of it when it is shorter).
LastN(seq, n) ==
    SubSeq(seq, Len(seq) - (IF Len(seq) < n THEN Len(seq) ELSE n) + 1, Len(seq))

\* C17: once the monitor has executed a tick, average_update_interval is the
\* mean of the durations of its most recent ticks, at most the last 100 of
\* them.
C17_RollingAverage ==
    durations # <<>> =>
        stats.average_update_interval = Average(LastN(durations, WindowSize))

\* A call of update_sensor_history on a sensor the object has, as a step.
Records(i) ==
    /\ records' = records + 1
    /\ lastCall'.op = "update_sensor_history"
    /\ i \in 1..Len(thermal.sensors)
    /\ thermal.sensors[i].name = lastCall'.args[1]
    /\ \A j \in 1..(i - 1) : thermal.sensors[j].name # lastCall'.args[1]

\* C18: a sensor's history never holds more than 10 readings; a record call
\* appends its reading as the newest one behind the earlier readings in their
\* order, drops exactly the oldest reading when 10 were held, and sets the
\* sensor's current temperature to the recorded value.
C18_HistoryBound ==
    /\ [](\A i \in 1..Len(thermal.sensors) :
             Len(thermal.sensors[i].temperature_history) <= HistoryLimit)
    /\ [][ \A i \in 1..Len(thermal.sensors) :
             Records(i) =>
               LET old == thermal.sensors[i].temperature_history
                   new == thermal'.sensors[i].temperature_history
                   temperature == lastCall'.args[2]
                   kept == IF Len(old) < HistoryLimit THEN 0 ELSE 1
               IN  /\ Len(new) = Len(old) + 1 - kept
                   /\ new[Len(new)] = temperature
                   /\ \A k \in 1..(Len(new) - 1) : new[k] = old[k + kept]
                   /\ thermal'.sensors[i].temperature = temperature ]_vars

\* Eleven readings recorded on one sensor, the first an 80 and the last a 70:
\* the history holds ten readings and the 80 recorded first is gone.
C18_Witness ==
    /\ records = HistoryLimit + 1
    /\ lastCall.op = "update_sensor_history"
    /\ Len(thermal.sensors) = 2
    /\ thermal.sensors[2].temperature_history = <<>>
    /\ thermal.sensors[1].temperature_history =
         [k \in 1..HistoryLimit |-> IF k = 1 THEN 80 ELSE 70]
    /\ thermal.sensors[1].temperature = 70

\* The sensors of the object with at least three recorded readings.
Qualifying ==
    { i \in 1..Len(thermal.sensors) :
        Len(thermal.sensors[i].temperature_history) >= 3 }

\* The newest reading of a sensor minus its third newest, summed over sensors.
RECURSIVE RiseOver(_)
RiseOver(S) ==
    IF S = {} THEN 0
    ELSE LET i == CHOOSE j \in S : TRUE
             h == thermal.sensors[i].temperature_history
         IN  (h[Len(h)] - h[Len(h) - 2]) + RiseOver(S \ {i})

\* C19: the temperature trend is the average over the sensors with at least 3
\* readings of (newest reading - third newest reading) / 2, and 0 when no
\* sensor has 3 readings.
C19_TrendAverage ==
    LET trend == calculate_temperature_trend(thermal) IN
    /\ trend.den > 0
    /\ Qualifying = {} => trend.num = 0
    /\ Qualifying # {} =>
         trend.num * 2 * Cardinality(Qualifying) = RiseOver(Qualifying) * trend.den

\* A prediction over two sensors, one with readings 70, 70, 80 and one with
\* two readings only: the trend is 10 / 2 = 5, whatever the second sensor
\* recorded.
C19_Witness ==
    /\ lastCall.op = "predict_thermal_throttling"
    /\ Len(thermal.sensors) = 2
    /\ thermal.sensors[1].temperature_history = << 70, 70, 80 >>
    /\ thermal.sensors[2].temperature_history = << 80, 70 >>
    /\ calculate_temperature_trend(thermal) = [num |-> 10, den |-> 2]

\* The highest current reading of the object's sensors, 0 without sensors.
CurrentMax ==
    LET temps == { thermal.sensors[i].temperature : i \in 1..Len(thermal.sensors) } IN
    IF temps = {} THEN 0 ELSE CHOOSE m \in temps : \A x \in temps : x <= m

\* (current_max + workload_intensity * 10 + trend) < bound, for the call that
\* returned last.
ProjectedBelow(bound) ==
    LET trend == calculate_temperature_trend(thermal) IN
    (CurrentMax + lastCall.args[1]) * trend.den + trend.num < bound * trend.den

\* C20: a prediction has will_throttle exactly when current_max +
\* workload_intensity * 10 + trend is at least 90, its severity is None below
\* 80, Light in [80,85), Moderate in [85,90), Heavy in [90,95) and Severe from
\* 95 on, and its recommendations are non-empty exactly when will_throttle.
C20_Prediction ==
    lastCall.op = "predict_thermal_throttling" =>
        LET p == lastCall.result IN
        /\ p.will_throttle <=> ~ProjectedBelow(90)
        /\ p.severity = "None" <=> ProjectedBelow(80)
        /\ p.severity = "Light" <=> ~ProjectedBelow(80) /\ ProjectedBelow(85)
        /\ p.severity = "Moderate" <=> ~ProjectedBelow(85) /\ ProjectedBelow(90)
        /\ p.severity = "Heavy" <=> ~ProjectedBelow(90) /\ ProjectedBelow(95)
        /\ p.severity = "Severe" <=> ~ProjectedBelow(95)
        /\ p.will_throttle <=> p.severity \in {"Heavy", "Severe"}
        /\ p.recommendations # <<>> <=> p.will_throttle

\* A prediction for the full workload over a highest reading of 80 and no
\* trend: exactly 90 is projected, which throttles with severity Heavy.
C20_Witness ==
    /\ lastCall.op = "predict_thermal_throttling"
    /\ lastCall.args = << 10 >>
    /\ CurrentMax = 80
    /\ calculate_temperature_trend(thermal).num = 0
    /\ lastCall.result.will_throttle
    /\ lastCall.result.severity = "Heavy"
    /\ lastCall.result.recommendations # <<>>

\* C21: a prediction carries a time to throttle exactly when it predicts
\* throttling and the trend is above zero; the time is (90 - current_max) /
\* trend minutes in whole seconds, never negative, and zero when current_max
\* is 90 or more.
C21_TimeToThrottle ==
    lastCall.op = "predict_thermal_throttling" =>
        LET p == lastCall.result
            trend == calculate_temperature_trend(thermal)
            sixtieths == (90 - CurrentMax) * 60 * trend.den
        IN  /\ IsSome(p.time_to_throttle) <=> (p.will_throttle /\ trend.num > 0)
            /\ IsSome(p.time_to_throttle) =>
                 LET seconds == Unwrap(p.time_to_throttle) IN
                 /\ seconds >= 0
                 /\ CurrentMax >= 90 => seconds = 0
                 /\ CurrentMax < 90 =>
                      /\ seconds * trend.num <= sixtieths
                      /\ sixtieths < (seconds + 1) * trend.num

\* One sensor that read 70, 70, 77 and the full workload: 90.5 is projected,
\* the trend is 3.5 a minute and 13 degrees are left, which is 222 whole
\* seconds.
C21_Witness ==
    /\ lastCall.op = "predict_thermal_throttling"
    /\ lastCall.result.will_throttle
    /\ CurrentMax = 77
    /\ calculate_temperature_trend(thermal) = [num |-> 7, den |-> 2]
    /\ lastCall.result.time_to_throttle = Some(222)

\* C22: the stored configuration is replaced only while the monitor is
\* stopped: no step changes config while the running flag is true.
C22_ConfigOnlyWhileStopped ==
    [][ running => config' = config ]_vars

\* The start calls that were let through and the tasks that were spawned.
Admitted == { s \in Starters : starts[s].pc = "spawning" \/ starts[s].result = "Ok" }
SpawnedTasks == { t \in Tasks : task[t].pc # "idle" }

\* C26: of the start_monitoring calls made side by side on a stopped monitor
\* exactly one is let through, spawns one loop and returns Ok; every other
\* call returns the already-running error and spawns nothing.
C26_OneStartWins ==
    /\ Cardinality(Admitted) <= 1
    /\ Cardinality(SpawnedTasks) <= 1
    /\ (\E s \in Starters : starts[s].pc # "idle") => Cardinality(Admitted) = 1
    /\ \A s \in Starters :
         starts[s].pc = "returned" =>
            starts[s].result = IF s \in Admitted THEN "Ok" ELSE "InvalidConfiguration"
    /\ (\A s \in Starters : starts[s].pc = "returned") =>
         /\ Cardinality({ s \in Starters : starts[s].result = "Ok" }) = 1
         /\ Cardinality(SpawnedTasks) = 1

\* Every caller has returned, one of them while the winner had set the flag
\* and not yet spawned its loop, and the one loop is in its first iteration.
C26_Witness ==
    /\ \A s \in Starters : starts[s].pc = "returned"
    /\ \E s \in Starters : starts[s].result = "InvalidConfiguration"
    /\ Cardinality(SpawnedTasks) = 1
    /\ \E t \in Tasks : task[t].pc = "dispatch"
    /\ running

\* The events a threshold handler is to be called for.
Matching(kind, e) ==
    \/ /\ kind.kind = "thermal_threshold"
       /\ e.kind = "ThermalAlert"
       /\ e.temperature >= kind.threshold
    \/ /\ kind.kind = "power_threshold"
       /\ e.kind = "PowerAlert"
       /\ e.current_power >= kind.threshold

\* C23: the handler given to on_thermal_threshold(t, handler) is called for
\* exactly the ThermalAlert events with temperature >= t among the events its
\* callback is notified of, the handler given to on_power_threshold(t,
\* handler) for exactly the PowerAlert events with current_power >= t, and
\* each registration adds one callback.
C23_ThresholdHandlers ==
    /\ [](\A c \in 1..MaxCallbacks :
             kinds[c].kind \in {"thermal_threshold", "power_threshold"} =>
                Handled(c) = SelectSeq(notified[c], LAMBDA e : Matching(kinds[c], e)))
    /\ [][ lastCall'.op \in {"on_thermal_threshold", "on_power_threshold"}
             /\ lastCall' # lastCall
           => Len(callbacks') = Len(callbacks) + 1 ]_vars

\* C24: a tick whose thermal query succeeded feeds every sensor's reading
\* into the sensor's history, so the snapshot it holds, caches and emits has,
\* for every sensor, a history of at least one and at most 10 readings whose
\* newest is the sensor's current temperature.
C24_LoopFeedsHistory ==
    /\ \A t \in Tasks :
         IsSome(task[t].thermal_info) =>
            \A i \in 1..Len(Unwrap(task[t].thermal_info).sensors) :
                LET sensor == Unwrap(task[t].thermal_info).sensors[i]
                    history == sensor.temperature_history
                IN  /\ Len(history) \in 1..HistoryLimit
                    /\ history[Len(history)] = sensor.temperature
    /\ IsSome(last_thermal_info) =>
         \A i \in 1..Len(Unwrap(last_thermal_info).sensors) :
             Unwrap(last_thermal_info).sensors[i].temperature_history # <<>>

\* C25: add_callback and clear_callbacks next to a running loop leave the
\* dispatch intact. The list does not change while the callbacks of an event
\* are being notified; only callbacks of the list are notified, one after the
\* other; when the notification of an event ends, every callback of the list
\* has been called with it, so a callback added before the notification
\* started is called and a callback cleared before it started is not; and the
\* two calls touch neither the channel nor the statistics nor the tasks.
C25_ConcurrentRegistration ==
    /\ [][ (\E t \in Tasks : task[t].pc = "notify" /\ task[t].notifying > 0)
             => callbacks' = callbacks ]_vars
    /\ [][ \A c \in 1..MaxCallbacks :
             notified'[c] # notified[c] =>
                \E t \in Tasks :
                    /\ task[t].pc = "notify"
                    /\ task[t].notifying < Len(callbacks)
                    /\ c = callbacks[task[t].notifying + 1]
                    /\ notified'[c] =
                         Append(notified[c], task[t].events[task[t].dispatched + 1])
         ]_vars
    /\ [][ \A t \in Tasks :
             (task[t].pc = "notify" /\ task'[t].pc # "notify") =>
                \A i \in 1..Len(callbacks') :
                    LET log == notified'[callbacks'[i]] IN
                    /\ log # <<>>
                    /\ log[Len(log)] = task[t].events[task[t].dispatched + 1]
         ]_vars
    /\ [][ callbacks' # callbacks =>
             /\ rx' = rx
             /\ sent' = sent
             /\ stats' = stats
             /\ task' = task ]_vars

\* A first callback was notified and then cleared, and a second one, added
\* after the loop had begun to dispatch, has been notified of a later event
\* that the first one never saw.
C25_Witness ==
    /\ callbacks = << 2 >>
    /\ notified[1] # <<>>
    /\ notified[2] # <<>>
    /\ \A i \in 1..Len(notified[2]) :
         \A j \in 1..Len(notified[1]) : notified[2][i] # notified[1][j]
    /\ stats.total_events > 0

\* C27: whatever get_stats returns, total_events is the sum of
\* thermal_alerts, power_alerts, hardware_changes and errors plus the number
\* of ticks whose statistics update is done, and hardware_changes is 0: no
\* reader sees the total of a tick without its per-kind counts.
C27_StatsSum ==
    /\ stats.total_events =
         stats.thermal_alerts + stats.power_alerts + stats.hardware_changes
           + stats.errors + Len(durations)
    /\ stats.hardware_changes = 0

\* Two ticks have been counted, each with a thermal alert and a failed query
\* and one of them with a power alert, and a loop has ended.
C27_Witness ==
    /\ Len(durations) = 2
    /\ stats.thermal_alerts = 2
    /\ stats.power_alerts = 1
    /\ stats.errors = 2
    /\ stats.total_events = 7
    /\ \E t \in Tasks : task[t].pc = "done"

\* C28: while an event of a tick is with the subscribers and callbacks (it
\* has been sent and its callbacks are being notified), the get_last_*
\* accessors already return a snapshot for every category whose query
\* succeeded in the tick, for the hardware that tick's snapshot or a later
\* one (the snapshots of the other categories carry no time), and get_stats
\* counts no event of the tick: total_events does not exceed the events sent
\* before the tick's.
C28_CacheBeforeDispatchBeforeStats ==
    \A t \in Tasks :
        task[t].pc = "notify" =>
            /\ IsSome(task[t].hardware_info) =>
                 /\ IsSome(last_hardware_info)
                 /\ Unwrap(last_hardware_info).timestamp
                      >= Unwrap(task[t].hardware_info).timestamp
            /\ IsSome(task[t].thermal_info) => IsSome(last_thermal_info)
            /\ IsSome(task[t].power_profile) => IsSome(last_power_profile)
            /\ stats.total_events + task[t].dispatched + 1 <= Len(sent)

\* C29: a loop works with the configuration that was stored when its
\* start_monitoring call spawned it. The spawned task takes the stored
\* configuration of that moment, no later step changes it (update_config
\* changes no task), and every tick of the task queries the categories and
\* builds the events that this configuration asks for.
C29_LoopKeepsItsConfig ==
    /\ [][ \A t \in Tasks :
             task[t].pc = "idle" /\ task'[t].pc # "idle"
                => task'[t].config = config ]_vars
    /\ [][ \A t \in Tasks :
             task[t].pc # "idle" => task'[t].config = task[t].config ]_vars
    /\ [][ config' # config => task' = task ]_vars
    /\ [][ \A t \in Tasks :
             task[t].pc = "sleep" /\ task'[t].pc = "cache" =>
                LET res == task'[t].results IN
                /\ task'[t].queried = Queried(task[t].config)
                /\ task'[t].events =
                     TickEvents(task[t].config, res.hardware, res.thermal, res.power)
         ]_vars

\* After update_config took the power threshold away, the loop spawned before
\* it dispatches a power alert against its own threshold of 100, and a second
\* loop, spawned after the update, has built a tick without a power alert.
C29_Witness ==
    /\ config = DefaultConfig
    /\ \E t, u \in Tasks :
         /\ task[t].config = AlertingConfig
         /\ task[t].pc = "dispatch"
         /\ CountKind(task[t].events, "PowerAlert") = 1
         /\ task[u].config = DefaultConfig
         /\ task[u].pc = "dispatch"
         /\ CountKind(task[u].events, "PowerAlert") = 0

\* C30: every tick that has been started completes its dispatch, whatever
\* the registered callbacks do in on_event, calls of add_callback on the same
\* monitor included: a task that has built the events of a tick reaches the
\* statistics block of that tick.
C30_DispatchCompletes ==
    \A t \in Tasks : (task[t].pc = "cache") ~> (task[t].pc = "stats")

====
